---- MODULE Spec2Model ----
(***************************************************************************)
(* State-machine model of rapids_opt2.py: the command line is parsed, a    *)
(* GCS filesystem handle is created, the scheduler address is discovered,  *)
(* a LocalCUDACluster and a Client are opened in nested `with` blocks and  *)
(* using_quantile_device_dmatrix reads the table, optionally persists it,  *)
(* builds the quantile matrix, trains, saves the booster to /tmp/tmp.model *)
(* and uploads it with fs.put.                                             *)
(*                                                                         *)
(* Strings that the code takes apart (option strings, literals given to    *)
(* type=int, the output of `hostname`) are sequences of one-character      *)
(* strings or of byte values; strings that the code only passes on are     *)
(* TLA+ strings.  Calls into dask, xgboost and gcsfs either return or      *)
(* raise; the choice is nondeterministic.  print() calls are left out.     *)
(***************************************************************************)
EXTENDS Integers, Sequences, FiniteSets, TLC

VARIABLES pc, argv, args, fs, raw, sched, kwargs, cluster, client, params, frame,
          readReq, localFile, putReq, remoteFile, log, exc, exitCode

vars == <<pc, argv, args, fs, raw, sched, kwargs, cluster, client, params, frame,
          readReq, localFile, putReq, remoteFile, log, exc, exitCode>>

mainVars == <<argv, args, fs, raw, sched, kwargs>>
scopeVars == <<cluster, client>>
fileVars == <<localFile, putReq, remoteFile>>

(* ------------------------------ bounds -------------------------------- *)
MaxArgLen == 2
MaxOutLen == 4
MaxWorkers == 2

(* ------------------------- program constants -------------------------- *)
DefaultGcpProject == "crisp-sa"
DefaultTrainFiles == "gs://crisp-sa/rapids/higgs_csv/*.csv"
DefaultModelFile == "gs://crisp-sa/rapids/models/001.model"
DefaultNumWorker == 2
DefaultThreadsPerWorker == 4
ScratchPath == "/tmp/tmp.model"
scheduler_port == <<"8", "7", "8", "6">>
NumFeatures == 28

(* --------------------- argparse: option strings ----------------------- *)
OptGcpProject == <<"-","-","g","c","p","-","p","r","o","j","e","c","t">>
OptTrainFiles == <<"-","-","t","r","a","i","n","-","f","i","l","e","s">>
OptModelFile == <<"-","-","m","o","d","e","l","-","f","i","l","e">>
OptNumWorker == <<"-","-","n","u","m","-","-","w","o","r","k","e","r">>
OptThreadsPerWorker ==
  <<"-","-","t","h","r","e","a","d","s","-","p","e","r","-","w","o","r","k","e","r">>
OptDoWait == <<"-","-","d","o","-","w","a","i","t">>
OptParquet == <<"-","-","p","a","r","q","u","e","t">>

(* attribute names the script reads from the parsed namespace *)
AttrGcpProject == <<"g","c","p","_","p","r","o","j","e","c","t">>
AttrTrainFiles == <<"t","r","a","i","n","_","f","i","l","e","s">>
AttrModelFile == <<"m","o","d","e","l","_","f","i","l","e">>
AttrNumWorker == <<"n","u","m","_","w","o","r","k","e","r">>
AttrThreadsPerWorker ==
  <<"t","h","r","e","a","d","s","_","p","e","r","_","w","o","r","k","e","r">>
AttrDoWait == <<"d","o","_","w","a","i","t">>
AttrParquet == <<"p","a","r","q","u","e","t">>

RECURSIVE LStrip(_, _)
LStrip(s, c) ==
  IF s # <<>> /\ Head(s) = c THEN LStrip(Tail(s), c) ELSE s

Replace(s, a, b) ==
  [i \in 1..Len(s) |-> IF s[i] = a THEN b ELSE s[i]]

(* argparse derives the attribute name from the first long option string:  *)
(* the leading prefix characters are stripped and every remaining '-'      *)
(* becomes '_', one for one.                                               *)
Dest(opt) == Replace(LStrip(opt, "-"), "-", "_")

(* ------------------------ argparse: type=int -------------------------- *)
Digits == {"0", "1", "2", "3", "4", "5", "6", "7", "8", "9"}

DigitVal(c) ==
  CASE c = "0" -> 0 [] c = "1" -> 1 [] c = "2" -> 2 [] c = "3" -> 3
    [] c = "4" -> 4 [] c = "5" -> 5 [] c = "6" -> 6 [] c = "7" -> 7
    [] c = "8" -> 8 [] c = "9" -> 9

IsIntLiteral(s) == s # <<>> /\ \A i \in 1..Len(s) : s[i] \in Digits

RECURSIVE IntOf(_)
IntOf(s) ==
  IF s = <<>> THEN 0
  ELSE 10 * IntOf(SubSeq(s, 1, Len(s) - 1)) + DigitVal(s[Len(s)])

(* ------------------------- command lines ------------------------------ *)
(* A command line gives, per option, the literal supplied or nothing:      *)
(* <<>> and "" stand for an omitted value option, FALSE for an omitted     *)
(* flag.                                                                   *)
RECURSIVE SeqsUpTo(_, _)
SeqsUpTo(S, n) ==
  IF n = 0 THEN {<<>>}
  ELSE LET shorter == SeqsUpTo(S, n - 1)
       IN  shorter \cup {Append(s, c) : s \in shorter, c \in S}

IntLiterals == (SeqsUpTo({"3"}, MaxArgLen) \ {<<>>}) \cup {<<"x">>}

Argvs ==
  [num_worker : IntLiterals \cup {<<>>},
   threads_per_worker : IntLiterals \cup {<<>>},
   train_files : {"", "/data/higgs.csv"},
   model_file : {"", "gs://bucket/out.model"},
   do_wait : BOOLEAN,
   parquet : BOOLEAN]

ArgvValid(av) ==
  /\ av.num_worker = <<>> \/ IsIntLiteral(av.num_worker)
  /\ av.threads_per_worker = <<>> \/ IsIntLiteral(av.threads_per_worker)

(* parser.parse_args(): the namespace, keyed by the derived names *)
Namespace(av) ==
  (Dest(OptGcpProject) :> DefaultGcpProject)
  @@ (Dest(OptTrainFiles) :>
        IF av.train_files = "" THEN DefaultTrainFiles ELSE av.train_files)
  @@ (Dest(OptModelFile) :>
        IF av.model_file = "" THEN DefaultModelFile ELSE av.model_file)
  @@ (Dest(OptNumWorker) :>
        IF av.num_worker = <<>> THEN DefaultNumWorker ELSE IntOf(av.num_worker))
  @@ (Dest(OptThreadsPerWorker) :>
        IF av.threads_per_worker = <<>> THEN DefaultThreadsPerWorker
        ELSE IntOf(av.threads_per_worker))
  @@ (Dest(OptDoWait) :> av.do_wait)
  @@ (Dest(OptParquet) :> av.parquet)

HasAttr(ns, name) == name \in DOMAIN ns

NoArgs == [d \in {} |-> 0]

(* -------------------------- get_scheduler_info ------------------------ *)
(* bytes printed by `hostname --all-ip-addresses`: '1', ' ', '\n'         *)
OutBytes == {49, 32, 10}
HostOutputs == SeqsUpTo(OutBytes, MaxOutLen)

DecodeByte(b) ==
  CASE b = 49 -> "1" [] b = 32 -> " " [] b = 10 -> "\n"

Decode(bs) == [i \in 1..Len(bs) |-> DecodeByte(bs[i])]

IsSpace(c) == c \in {" ", "\n"}

(* str.split(): the maximal runs of non-whitespace characters *)
RECURSIVE Split(_)
Split(s) ==
  IF s = <<>> THEN <<>>
  ELSE IF IsSpace(Head(s)) THEN Split(Tail(s))
  ELSE LET rest == Split(Tail(s))
       IN  IF Len(s) > 1 /\ ~IsSpace(s[2])
           THEN <<(<<Head(s)>> \o Head(rest))>> \o Tail(rest)
           ELSE <<(<<Head(s)>>)>> \o rest

Format(ip, port) == ip \o <<":">> \o port

NoSched == [ip |-> <<>>, uri |-> <<>>]

(* a variant that takes the last address reported *)
SchedulerInfo_lastToken(out) ==
  LET tokens == Split(Decode(out))
      scheduler_ip == tokens[Len(tokens)]
  IN  [ip |-> scheduler_ip, uri |-> Format(scheduler_ip, scheduler_port)]

(* result of get_scheduler_info on the given output, when split()[0] exists *)
SchedulerInfo(out) ==
  LET scheduler_ip == Split(Decode(out))[1]
  IN  [ip |-> scheduler_ip, uri |-> Format(scheduler_ip, scheduler_port)]

(* ------------------------------ states -------------------------------- *)
NoKwargs == [ip |-> <<>>, n_workers |-> -1, threads_per_worker |-> -1]
NoFrame == [df |-> "unbound", X |-> "unbound", y |-> "unbound",
            dtrain |-> "unbound", output |-> "unbound"]
NoRead == [fn |-> "none", path |-> "", columns |-> <<>>,
           header |-> "default", chunksize |-> "default"]
NoPut == [src |-> "", dst |-> ""]
NoParams == [train_dir |-> "", model_file |-> "", do_wait |-> FALSE,
             parquet |-> FALSE]

Start(av) ==
  /\ pc = "parse_args"
  /\ argv = av
  /\ args = NoArgs
  /\ fs = "none"
  /\ raw = <<>>
  /\ sched = NoSched
  /\ kwargs = NoKwargs
  /\ cluster = "none"
  /\ client = "none"
  /\ params = NoParams
  /\ frame = NoFrame
  /\ readReq = NoRead
  /\ localFile \in {"absent", "stale"}
  /\ putReq = NoPut
  /\ remoteFile = "absent"
  /\ log = <<>>
  /\ exc = "none"
  /\ exitCode = -1

Init == \E av \in Argvs : Start(av)

(* an exception leaves the current step for the given place; the log      *)
(* records the step and that it raised                                     *)
Raise(step, e, at) ==
  /\ exc' = e
  /\ pc' = at
  /\ log' = log \o <<step, "raise">>

Goto(step, to) ==
  /\ exc' = exc
  /\ pc' = to
  /\ log' = Append(log, step)

(* ------------------------------ __main__ ------------------------------ *)
(* args = parser.parse_args(): a literal that int() rejects ends the       *)
(* process through parser.error (status 2).                                *)
ParseArgs ==
  /\ pc = "parse_args"
  /\ IF ArgvValid(argv)
     THEN /\ args' = Namespace(argv)
          /\ Goto("parse_args", "make_fs")
     ELSE /\ args' = args
          /\ Raise("parse_args", "SystemExit", "exit")
  /\ UNCHANGED <<argv, fs, raw, sched, kwargs, scopeVars, params, frame, readReq,
                 fileVars, exitCode>>

(* fs = gcsfs.GCSFileSystem(project=args.gcp_project, token='cloud') *)
MakeFs ==
  /\ pc = "make_fs"
  /\ IF ~HasAttr(args, AttrGcpProject)
     THEN /\ Raise("make_fs", "AttributeError", "exit")
          /\ fs' = fs
     ELSE \E ok \in BOOLEAN :
            IF ok THEN /\ fs' = "open"
                       /\ Goto("make_fs", "check_output")
            ELSE /\ Raise("make_fs", "LibraryError", "exit")
                 /\ fs' = fs
  /\ UNCHANGED <<argv, args, raw, sched, kwargs, scopeVars, params, frame, readReq,
                 fileVars, exitCode>>

(* line 89: scheduler_ip = subprocess.check_output(['hostname', ...]),    *)
(* which raises when the command cannot be run or fails                    *)
CheckOutput ==
  /\ pc = "check_output"
  /\ \/ /\ raw' = raw
        /\ Raise("check_output", "CalledProcessError", "exit")
     \/ /\ raw' \in HostOutputs
        /\ Goto("check_output", "split_output")
  /\ UNCHANGED <<argv, args, fs, sched, kwargs, scopeVars, params, frame,
                 readReq, fileVars, exitCode>>

(* lines 90-93 and the assignment of line 131: decode, split()[0], format, *)
(* return; [0] raises when split() finds no token.  The function's locals  *)
(* end with the call.                                                      *)
GetSchedulerInfo ==
  /\ pc = "split_output"
  /\ raw' = <<>>
  /\ IF Split(Decode(raw)) = <<>>
     THEN /\ Raise("split_output", "IndexError", "exit")
          /\ sched' = sched
     ELSE /\ sched' = SchedulerInfo(raw)
          /\ Goto("split_output", "cluster_args")
  /\ UNCHANGED <<argv, args, fs, kwargs, scopeVars, params, frame, readReq,
                 fileVars, exitCode>>

(* the keyword arguments of LocalCUDACluster(...) are evaluated before the *)
(* constructor is called                                                   *)
ClusterArgs ==
  /\ pc = "cluster_args"
  /\ IF HasAttr(args, AttrNumWorker) /\ HasAttr(args, AttrThreadsPerWorker)
     THEN /\ kwargs' = [ip |-> sched.ip,
                        n_workers |-> args[AttrNumWorker],
                        threads_per_worker |-> args[AttrThreadsPerWorker]]
          /\ Goto("cluster_args", "cluster_enter")
     ELSE /\ kwargs' = kwargs
          /\ Raise("cluster_args", "AttributeError", "exit")
  /\ UNCHANGED <<argv, args, fs, raw, sched, scopeVars, params, frame, readReq,
                 fileVars, exitCode>>

(* the interpreter ends: 0 without an exception, 2 from parser.error, 1    *)
(* from an uncaught exception                                              *)
ExitStatus(e) ==
  CASE e = "none" -> 0
    [] e = "SystemExit" -> 2
    [] OTHER -> 1

Exit ==
  /\ pc = "exit"
  /\ exitCode' = ExitStatus(exc)
  /\ pc' = "done"
  /\ UNCHANGED <<mainVars, scopeVars, params, frame, readReq, fileVars, log,
                 exc>>

(* --------------------- the nested `with` blocks ----------------------- *)
(* with LocalCUDACluster(ip=..., n_workers=..., threads_per_worker=...)    *)
ClusterEnter ==
  /\ pc = "cluster_enter"
  /\ \E ok \in BOOLEAN :
       IF ok THEN /\ cluster' = "open"
                  /\ Goto("cluster_enter", "client_enter")
       ELSE /\ cluster' = cluster
            /\ Raise("cluster_enter", "LibraryError", "exit")
  /\ UNCHANGED <<mainVars, client, params, frame, readReq, fileVars, exitCode>>

(* with Client(cluster) as client: a failure here leaves through the       *)
(* cluster's __exit__                                                      *)
ClientEnter ==
  /\ pc = "client_enter"
  /\ \E ok \in BOOLEAN :
       IF ok THEN /\ client' = "open"
                  /\ Goto("client_enter", "call")
       ELSE /\ client' = client
            /\ Raise("client_enter", "LibraryError", "cluster_exit")
  /\ UNCHANGED <<mainVars, cluster, params, frame, readReq, fileVars, exitCode>>

(* using_quantile_device_dmatrix(client, args.train_files, args.model_file, *)
(* fs, args.do_wait, args.parquet): the arguments are bound                *)
Call ==
  /\ pc = "call"
  /\ IF /\ HasAttr(args, AttrTrainFiles) /\ HasAttr(args, AttrModelFile)
        /\ HasAttr(args, AttrDoWait) /\ HasAttr(args, AttrParquet)
     THEN /\ params' = [train_dir |-> args[AttrTrainFiles],
                        model_file |-> args[AttrModelFile],
                        do_wait |-> args[AttrDoWait],
                        parquet |-> args[AttrParquet]]
          /\ Goto("call", "read")
     ELSE /\ params' = params
          /\ Raise("call", "AttributeError", "client_exit")
  /\ UNCHANGED <<mainVars, scopeVars, frame, readReq, fileVars, exitCode>>

ClientClosed_onlyOnSuccess(e) == IF e = "none" THEN "closed" ELSE "open"

(* Client.__exit__: runs however the body was left *)
ClientClosed(e) == "closed"

ClientExit ==
  /\ pc = "client_exit"
  /\ client' = ClientClosed(exc)
  /\ pc' = "cluster_exit"
  /\ log' = Append(log, "client_exit")
  /\ UNCHANGED <<mainVars, cluster, params, frame, readReq, fileVars, exc,
                 exitCode>>

(* LocalCUDACluster.__exit__: the workers are terminated *)
ClusterExit ==
  /\ pc = "cluster_exit"
  /\ cluster' = "closed"
  /\ pc' = "exit"
  /\ log' = Append(log, "cluster_exit")
  /\ UNCHANGED <<mainVars, client, params, frame, readReq, fileVars, exc,
                 exitCode>>

(* ------------------- using_quantile_device_dmatrix -------------------- *)
Fmt02d_unpadded(i) == ToString(i)

(* '%02d' % i *)
Fmt02d(i) == IF i < 10 THEN "0" \o ToString(i) ELSE ToString(i)

colnames ==
  <<"label">> \o [i \in 1..NumFeatures |-> "feature-" \o Fmt02d(i)]

(* a variant that tries the failed step again *)
FnRaise_retry(step) ==
  /\ exc' = exc
  /\ pc' = pc
  /\ log' = log \o <<step, "raise">>

(* an exception inside the function leaves it for the client's __exit__;   *)
(* the frame stays referenced by the traceback                             *)
FnRaise(step) == Raise(step, "LibraryError", "client_exit")

(* lines 36-44: one of the two reads, then the lazy views X and y *)
Read ==
  /\ pc = "read"
  /\ LET fn == IF params.parquet = TRUE THEN "read_parquet" ELSE "read_csv"
     IN  /\ readReq' =
              IF params.parquet = TRUE
              THEN [fn |-> "read_parquet", path |-> params.train_dir,
                    columns |-> colnames, header |-> "default",
                    chunksize |-> "default"]
              ELSE [fn |-> "read_csv", path |-> params.train_dir,
                    columns |-> colnames, header |-> "None",
                    chunksize |-> "None"]
         /\ \E ok \in BOOLEAN :
              IF ok
              THEN /\ frame' = [frame EXCEPT !.df = "lazy", !.X = "lazy",
                                             !.y = "lazy"]
                   /\ Goto(fn, IF params.do_wait = TRUE THEN "persist"
                               ELSE "build")
              ELSE /\ frame' = frame
                   /\ FnRaise(fn)
  /\ UNCHANGED <<mainVars, scopeVars, params, fileVars, exitCode>>

(* lines 48-49: df = df.persist(); X = X.persist() start the computation   *)
Persist ==
  /\ pc = "persist"
  /\ \E ok \in BOOLEAN :
       IF ok
       THEN /\ frame' = [frame EXCEPT !.df = "persisting", !.X = "persisting"]
            /\ Goto("persist", "wait_df")
       ELSE /\ frame' = frame
            /\ FnRaise("persist")
  /\ UNCHANGED <<mainVars, scopeVars, params, readReq, fileVars, exitCode>>

Waited_noBlock(st) == st

(* wait(c) returns once the collection's partitions are computed *)
Waited(st) == "materialized"

(* line 50: wait(df) *)
WaitDf ==
  /\ pc = "wait_df"
  /\ \E ok \in BOOLEAN :
       IF ok
       THEN /\ frame' = [frame EXCEPT !.df = Waited(frame.df)]
            /\ Goto("wait_df", "wait_X")
       ELSE /\ frame' = frame
            /\ FnRaise("wait_df")
  /\ UNCHANGED <<mainVars, scopeVars, params, readReq, fileVars, exitCode>>

(* line 51: wait(X) *)
WaitX ==
  /\ pc = "wait_X"
  /\ \E ok \in BOOLEAN :
       IF ok
       THEN /\ frame' = [frame EXCEPT !.X = Waited(frame.X)]
            /\ Goto("wait_X", "build")
       ELSE /\ frame' = frame
            /\ FnRaise("wait_X")
  /\ UNCHANGED <<mainVars, scopeVars, params, readReq, fileVars, exitCode>>

(* line 58: dtrain = dxgb.DaskDeviceQuantileDMatrix(client, X, y) *)
BuildMatrix ==
  /\ pc = "build"
  /\ \E ok \in BOOLEAN :
       IF ok
       THEN /\ frame' = [frame EXCEPT !.dtrain = "built"]
            /\ Goto("build", "del")
       ELSE /\ frame' = frame
            /\ FnRaise("build")
  /\ UNCHANGED <<mainVars, scopeVars, params, readReq, fileVars, exitCode>>

Deleted_keepsX(f) == [f EXCEPT !.df = "unbound", !.y = "unbound"]

(* lines 61-63: del df; del X; del y *)
Deleted(f) == [f EXCEPT !.df = "unbound", !.X = "unbound", !.y = "unbound"]

DelSources ==
  /\ pc = "del"
  /\ frame' = Deleted(frame)
  /\ Goto("del", "train")
  /\ UNCHANGED <<mainVars, scopeVars, params, readReq, fileVars, exitCode>>

Trained_releasesMatrix(f) ==
  [f EXCEPT !.output = "booster", !.dtrain = "unbound"]

(* lines 66-82: output = xgb.dask.train(client, {...}, dtrain, ...) *)
Trained(f) == [f EXCEPT !.output = "booster"]

Train ==
  /\ pc = "train"
  /\ \E ok \in BOOLEAN :
       IF ok
       THEN /\ frame' = Trained(frame)
            /\ Goto("train", "save")
       ELSE /\ frame' = frame
            /\ FnRaise("train")
  /\ UNCHANGED <<mainVars, scopeVars, params, readReq, fileVars, exitCode>>

(* line 84: output['booster'].save_model('/tmp/tmp.model'); a failed write *)
(* leaves the old content or a truncated file                              *)
SaveModel ==
  /\ pc = "save"
  /\ \/ /\ localFile' = frame.output
        /\ Goto("save_model", "put")
     \/ /\ localFile' \in {localFile, "partial"}
        /\ FnRaise("save_model")
  /\ UNCHANGED <<mainVars, scopeVars, params, frame, readReq, putReq,
                 remoteFile, exitCode>>

LocalAfterPut_cleanup(ok, f) == IF ok THEN f ELSE "absent"

(* fs.put reads the local file and does not touch it *)
LocalAfterPut(ok, f) == f

(* line 85: fs.put('/tmp/tmp.model', model_file); a failed upload leaves   *)
(* the destination absent or partially written                             *)
Put ==
  /\ pc = "put"
  /\ putReq' = [src |-> ScratchPath, dst |-> params.model_file]
  /\ \E ok \in BOOLEAN :
       /\ localFile' = LocalAfterPut(ok, localFile)
       /\ IF ok
          THEN /\ remoteFile' = localFile
               /\ Goto("put", "return")
          ELSE /\ remoteFile' \in {remoteFile, "partial"}
               /\ FnRaise("put")
  /\ UNCHANGED <<mainVars, scopeVars, params, frame, readReq, exitCode>>

(* line 86 and the implicit return: the frame and its names are dropped *)
Return ==
  /\ pc = "return"
  /\ frame' = NoFrame
  /\ pc' = "client_exit"
  /\ UNCHANGED <<mainVars, scopeVars, params, readReq, fileVars, log, exc,
                 exitCode>>

(* --------------------------- specifications --------------------------- *)
(* The script as it is run from the command line; the actions of the with  *)
(* blocks and of the function are not reachable from it and belong to      *)
(* NextScope and NextFn.                                                   *)
Next ==
  ParseArgs \/ MakeFs \/ CheckOutput \/ GetSchedulerInfo \/ ClusterArgs \/ Exit

Spec == Init /\ [][Next]_vars

(* using_quantile_device_dmatrix called with an open client and filesystem *)
(* handle and any path and flags.                                          *)
ParamSets ==
  [train_dir : {DefaultTrainFiles, "/data/higgs.csv"},
   model_file : {DefaultModelFile, "gs://bucket/out.model"},
   do_wait : BOOLEAN,
   parquet : BOOLEAN]

NoArgv == [num_worker |-> <<>>, threads_per_worker |-> <<>>,
           train_files |-> "", model_file |-> "", do_wait |-> FALSE,
           parquet |-> FALSE]

InitFn ==
  /\ pc = "read"
  /\ argv = NoArgv
  /\ args = NoArgs
  /\ fs = "open"
  /\ raw = <<>>
  /\ sched = NoSched
  /\ kwargs = NoKwargs
  /\ cluster = "open"
  /\ client = "open"
  /\ params \in ParamSets
  /\ frame = NoFrame
  /\ readReq = NoRead
  /\ localFile \in {"absent", "stale"}
  /\ putReq = NoPut
  /\ remoteFile = "absent"
  /\ log = <<>>
  /\ exc = "none"
  /\ exitCode = -1

NextFn ==
  \/ Read \/ Persist \/ WaitDf \/ WaitX \/ BuildMatrix \/ DelSources
  \/ Train \/ SaveModel \/ Put \/ Return

SpecFn == InitFn /\ [][NextFn]_vars

(* Lines 138-144 from the point where the keyword arguments of the cluster *)
(* constructor have their values, to the end of the process.  Spec never   *)
(* reaches this point: ClusterArgs finds no attribute num_worker in the    *)
(* namespace.  The worker count is therefore any count up to MaxWorkers.   *)
InitScope ==
  /\ pc = "cluster_enter"
  /\ argv \in {av \in Argvs : ArgvValid(av)}
  /\ args = Namespace(argv)
  /\ fs = "open"
  /\ raw = <<>>
  /\ \E out \in HostOutputs :
       /\ Split(Decode(out)) # <<>>
       /\ sched = SchedulerInfo(out)
  /\ \E n \in 1..MaxWorkers :
       kwargs = [ip |-> sched.ip, n_workers |-> n,
                 threads_per_worker |-> args[Dest(OptThreadsPerWorker)]]
  /\ cluster = "none"
  /\ client = "none"
  /\ params = NoParams
  /\ frame = NoFrame
  /\ readReq = NoRead
  /\ localFile \in {"absent", "stale"}
  /\ putReq = NoPut
  /\ remoteFile = "absent"
  /\ log = <<"parse_args", "make_fs", "check_output", "split_output",
            "cluster_args">>
  /\ exc = "none"
  /\ exitCode = -1

NextScope ==
  \/ ClusterEnter \/ ClientEnter \/ Call \/ NextFn
  \/ ClientExit \/ ClusterExit \/ Exit

SpecScope == InitScope /\ [][NextScope]_vars

(* ------------------------------ properties ---------------------------- *)
LogHas(x) == \E i \in 1..Len(log) : log[i] = x
Count(x) == Cardinality({i \in 1..Len(log) : log[i] = x})
RaisedAt(step) ==
  \E i \in 1..(Len(log) - 1) : log[i] = step /\ log[i + 1] = "raise"

ExpectedInt(lit, default) == IF lit = <<>> THEN default ELSE IntOf(lit)
ExpectedModelFile ==
  IF argv.model_file = "" THEN DefaultModelFile ELSE argv.model_file
ExpectedTrainFiles ==
  IF argv.train_files = "" THEN DefaultTrainFiles ELSE argv.train_files

(* C1: once line 138 has evaluated the arguments of the cluster            *)
(* constructor, the worker count and the thread count handed over are the  *)
(* values given for --num--worker and --threads-per-worker, or 2 and 4.    *)
C1_CountsHandedToCluster ==
  LogHas("cluster_args") =>
    /\ exc = "none"
    /\ kwargs.n_workers = ExpectedInt(argv.num_worker, 2)
    /\ kwargs.threads_per_worker = ExpectedInt(argv.threads_per_worker, 4)

(* C2: when the process has left the `with` blocks, neither the cluster    *)
(* nor the client is open; a cluster that was started is closed, a client  *)
(* that was started is closed, and the client is closed before the         *)
(* cluster, also when the body raised.                                     *)
C2_TornDown ==
  /\ pc \in {"exit", "done"} =>
       /\ cluster # "open" /\ client # "open"
       /\ LogHas("cluster_enter") /\ ~RaisedAt("cluster_enter")
            => cluster = "closed"
       /\ LogHas("client_enter") /\ ~RaisedAt("client_enter")
            => client = "closed"
  /\ cluster = "closed" => client # "open"

C2_Witness ==
  /\ pc = "done"
  /\ RaisedAt("train")
  /\ cluster = "closed"
  /\ client = "closed"

(* C3: if fs.put raised, the scratch file still holds the booster that     *)
(* save_model wrote, nothing runs after the put but the teardown, and the  *)
(* process ends with a status other than zero.                             *)
C3_PutFailureKeepsScratch ==
  RaisedAt("put") =>
    /\ localFile = "booster"
    /\ pc \in {"client_exit", "cluster_exit", "exit", "done"}
    /\ log[Len(log)] \in {"raise", "client_exit", "cluster_exit"}
    /\ pc = "done" => exitCode # 0

C3_Witness ==
  /\ RaisedAt("put")
  /\ pc = "done"
  /\ exitCode = 1
  /\ localFile = "booster"

ExternalFailure ==
  exc \in {"LibraryError", "CalledProcessError", "IndexError", "SystemExit"}

(* C4: a run with --do-wait and --parquet unset and the default worker and *)
(* thread counts, in which no external call fails, has saved the model     *)
(* exactly once at /tmp/tmp.model when it ends, and has uploaded that file *)
(* to the --model-file destination after the save.                         *)
C4_DefaultRunSavesOnce ==
  ( /\ pc = "done"
    /\ ~argv.do_wait /\ ~argv.parquet
    /\ argv.num_worker = <<>> /\ argv.threads_per_worker = <<>>
    /\ ~ExternalFailure )
  =>
  ( /\ Count("save_model") = 1
    /\ localFile = "booster"
    /\ putReq = [src |-> "/tmp/tmp.model", dst |-> ExpectedModelFile]
    /\ remoteFile = "booster" )

(* C5: with do_wait set, DaskDeviceQuantileDMatrix is constructed only     *)
(* when both the table and the feature sub-table are materialized.         *)
C5_MaterializedBeforeBuild ==
  (params.do_wait /\ (pc = "build" \/ (pc = "del" /\ LogHas("build")))) =>
    /\ frame.df = "materialized"
    /\ frame.X = "materialized"

C5_Witness ==
  /\ params.do_wait
  /\ pc = "del"
  /\ frame.dtrain = "built"
  /\ frame.df = "materialized"
  /\ frame.X = "materialized"

ExpectedColumns ==
  <<"label",
    "feature-01", "feature-02", "feature-03", "feature-04", "feature-05",
    "feature-06", "feature-07", "feature-08", "feature-09", "feature-10",
    "feature-11", "feature-12", "feature-13", "feature-14", "feature-15",
    "feature-16", "feature-17", "feature-18", "feature-19", "feature-20",
    "feature-21", "feature-22", "feature-23", "feature-24", "feature-25",
    "feature-26", "feature-27", "feature-28">>

(* C6: without --parquet the one read issued is read_csv with header=None, *)
(* chunksize=None and the 29 names label, feature-01 .. feature-28 in that *)
(* order; with --parquet it is read_parquet with the same columns; no run  *)
(* issues both or issues one twice.                                        *)
C6_ReadByFlag ==
  /\ Count("read_csv") + Count("read_parquet") <= 1
  /\ (readReq.fn = "none") = (~LogHas("read_csv") /\ ~LogHas("read_parquet"))
  /\ LogHas("read_csv") =>
       /\ ~argv.parquet
       /\ readReq = [fn |-> "read_csv", path |-> ExpectedTrainFiles,
                     columns |-> ExpectedColumns, header |-> "None",
                     chunksize |-> "None"]
  /\ LogHas("read_parquet") =>
       /\ argv.parquet
       /\ readReq = [fn |-> "read_parquet", path |-> ExpectedTrainFiles,
                     columns |-> ExpectedColumns, header |-> "default",
                     chunksize |-> "default"]
  /\ pc \in {"persist", "build"} =>
       Count("read_csv") + Count("read_parquet") = 1

C6_Witness ==
  /\ ~argv.parquet
  /\ LogHas("read_csv")
  /\ Len(readReq.columns) = 29
  /\ readReq.columns[29] = "feature-28"
  /\ pc = "build"

(* the first address in the output: the first maximal run of bytes that    *)
(* are not white space                                                     *)
IsSpaceByte(b) == b \in {32, 10}
HasAddress(out) == \E i \in 1..Len(out) : ~IsSpaceByte(out[i])
FirstAddress(out) ==
  LET first == CHOOSE i \in 1..Len(out) :
                 /\ ~IsSpaceByte(out[i])
                 /\ \A k \in 1..(i - 1) : IsSpaceByte(out[k])
      last == CHOOSE j \in first..Len(out) :
                 /\ \A k \in first..j : ~IsSpaceByte(out[k])
                 /\ j = Len(out) \/ IsSpaceByte(out[j + 1])
  IN  Decode(SubSeq(out, first, last))

EndpointOf(out) ==
  [ip |-> FirstAddress(out),
   uri |-> FirstAddress(out) \o <<":", "8", "7", "8", "6">>]

(* C7 as stated: for any non-empty output of the host command,             *)
(* get_scheduler_info returns <ip>:8786 with <ip> the first address.       *)
C7_AnyNonEmptyOutput ==
  [][(pc = "split_output" /\ raw # <<>>) =>
       (HasAddress(raw) /\ exc' = "none" /\ sched' = EndpointOf(raw))]_vars

(* C7 amended: for any output that holds at least one address (a byte that *)
(* is not white space), get_scheduler_info returns <ip>:8786 with <ip> the *)
(* first address; on any other output it raises IndexError.                *)
C7_OutputWithAddress ==
  [][pc = "split_output" =>
       IF HasAddress(raw)
       THEN exc' = "none" /\ sched' = EndpointOf(raw)
       ELSE exc' = "IndexError" /\ sched' = sched]_vars

C7_Witness ==
  /\ pc = "cluster_args"
  /\ sched.ip = <<"1", "1">>
  /\ sched.uri = <<"1", "1", ":", "8", "7", "8", "6">>

PipelineSteps ==
  {"parse_args", "make_fs", "check_output", "split_output", "cluster_args",
   "cluster_enter", "client_enter", "call", "read_csv", "read_parquet",
   "persist", "wait_df", "wait_X", "build", "del", "train", "save_model",
   "put"}

C9_MatrixReleasedAfterTraining ==
  pc \in {"save", "put", "return"} => frame.dtrain = "unbound"

(* C9 amended: the script never deletes the training matrix; dtrain stays  *)
(* bound after training, through the local save and the upload, until the  *)
(* function returns and its frame is dropped.                              *)
C9_MatrixHeldUntilReturn ==
  /\ pc \in {"save", "put", "return"} => frame.dtrain = "built"
  /\ (pc = "client_exit" /\ exc = "none") => frame.dtrain = "unbound"

C9_Witness ==
  /\ pc = "return"
  /\ LogHas("put")
  /\ frame.dtrain = "built"
  /\ frame.output = "booster"

(* C10: training is entered only with df, X and y unbound, whatever the    *)
(* values of do_wait and parquet.                                          *)
C10_SourcesDiscardedBeforeTraining ==
  (pc = "train" \/ LogHas("train")) =>
    /\ frame.df \in {"unbound"}
    /\ frame.X \in {"unbound"}
    /\ frame.y \in {"unbound"}

C10_Witness ==
  /\ LogHas("train")
  /\ params.do_wait
  /\ params.parquet
  /\ frame.output = "booster"
  /\ frame.X = "unbound"

====
